---- MODULE Spec2Model ----
(***************************************************************************)
(* A model of atom/http.py: HttpClient.request and the connection          *)
(* preparation of HttpClient and ProxiedHttpClient, including the CONNECT  *)
(* tunnel negotiation done on a raw socket.                                *)
(*                                                                         *)
(* Text that the code inspects byte by byte (the proxy's reply, request    *)
(* bodies) is a sequence of one-character strings.  Text that the code     *)
(* only formats and hands on (urls, header values, the CONNECT request) is *)
(* a string, or a sequence of the pieces the format string joins.          *)
(***************************************************************************)
EXTENDS Integers, Sequences, FiniteSets, TLC

VARIABLES
    client,        \* the class of the client object: HttpClient or ProxiedHttpClient
    environ,       \* os.environ: the six variables the module reads
    self_headers,  \* self.headers, the instance-default headers
    pc,            \* position of the one in-flight request() call
    operation,     \* request() argument
    url_arg,       \* request() argument url as the caller passed it
    url,           \* the local url of request(): for a Url argument, the caller's object
    data,          \* request() argument
    headers,       \* request() argument: the caller's per-call dict
    all_headers,   \* local of request()
    proxy_auth,    \* local of ProxiedHttpClient._prepare_connection
    connection,    \* the httplib connection object returned by _prepare_connection
    sock,          \* the TCP socket of this request (p_sock, or httplib's own)
    p_sent,        \* what p_sock.sendall was given, one entry per call
    stream,        \* bytes the proxy will still deliver on p_sock
    response,      \* local accumulator of the tunnel read loop
    reads,         \* reads of the tunnel loop that returned data
    eof_reads,     \* reads of the tunnel loop that returned '' (peer closed)
    tls_input,     \* bytes left on p_sock when socket.ssl took it over
    buffered,      \* httplib's output buffer: what putrequest/putheader queued
    wire,          \* what httplib has written to the socket for this request
    body_rest,     \* what the body loops of request()/_send_data_part still have to send
    events,        \* the network operations of this request, in order
    outcome,       \* how request() ended
    err_arg        \* the argument carried by the raised error

vars == <<client, environ, self_headers, pc, operation, url_arg, url, data, headers,
          all_headers, proxy_auth, connection, sock, p_sent, stream, response,
          reads, eof_reads, tls_input, buffered, wire, body_rest, events, outcome, err_arg>>

-----------------------------------------------------------------------------
(* Bounds of the model *)

\* Reads of the tunnel loop that return '' before the model stops following them.
MaxEofReads == 2

\* Length of the content of the file-like request body.
MaxBodyLen == 3

-----------------------------------------------------------------------------
(* Python values *)

None == "<None>"

\* Truth value of an environment value, a port or a header text: None and '' are false.
Truthy(v) == v # None /\ v # ""

CR == "\r"
LF == "\n"
SP == " "

CRLF == <<CR, LF>>

\* The header terminator the tunnel read loop looks for (line 199).
TERMINATOR == <<CR, LF, CR, LF>>

\* socket.recv(8192), line 200.
RECV_BUFSIZE == 8192

\* data.read(100000), line 264.
READ_CHUNK == 100000

DEFAULT_CONTENT_TYPE == "application/atom+xml"

Min(a, b) == IF a < b THEN a ELSE b

Last(s) == s[Len(s)]

\* str(n) for the small non-negative integers the model meets.
PyStr(n) == IF n = 0 THEN "0" ELSE <<"1", "2", "3", "4", "5", "6", "7", "8", "9">>[n]

\* str.find(sub): the 0-based index of the first occurrence, or -1.
Find(s, sub) ==
    LET hits == {i \in 1..(Len(s) - Len(sub) + 1) : SubSeq(s, i, i + Len(sub) - 1) = sub}
    IN IF hits = {} THEN -1
       ELSE (CHOOSE i \in hits : \A j \in hits : i <= j) - 1

IsSpace(c) == c \in {SP, CR, LF, "\t"}

\* Length of the longest prefix of s without whitespace.
RECURSIVE TokenLen(_)
TokenLen(s) ==
    IF s = <<>> \/ IsSpace(Head(s)) THEN 0 ELSE 1 + TokenLen(Tail(s))

\* str.split(): the maximal runs of non-whitespace characters, in order.
RECURSIVE Split(_)
Split(s) ==
    IF s = <<>> THEN <<>>
    ELSE IF IsSpace(Head(s)) THEN Split(Tail(s))
    ELSE LET n == TokenLen(s)
         IN <<SubSeq(s, 1, n)>> \o Split(SubSeq(s, n + 1, Len(s)))

\* str(200), line 203.
STATUS_OK == <<"2", "0", "0">>

\* dict.copy() followed by dict.update(other): other's entries win.
DictUpdate(d, other) == other @@ d

EmptyDict == [n \in {} |-> ""]

Has(d, name) == name \in DOMAIN d

-----------------------------------------------------------------------------
(* atom.url: Url objects, parse_url, Url.to_string, Url.get_request_uri *)

MkUrl(protocol, host, port, path) ==
    [protocol |-> protocol, host |-> host, port |-> port, path |-> path]

NoUrl == MkUrl(None, None, None, None)

\* The url strings of the model and what atom.url.parse_url makes of each.
ParseUrl(s) ==
    CASE s = "http://example.org/feed"  -> MkUrl("http", "example.org", None, "/feed")
      [] s = "https://example.org/feed" -> MkUrl("https", "example.org", None, "/feed")
      [] s = "http://webproxy:3128"     -> MkUrl("http", "webproxy", "3128", None)
      [] s = "http://sslproxy"          -> MkUrl("http", "sslproxy", None, None)

\* Url.to_string(): scheme, host[:port] and path put together by urlunparse.
UrlToString(u) ==
    (IF Truthy(u.protocol) THEN <<u.protocol, "://">> ELSE <<>>)
    \o (IF Truthy(u.host)
        THEN (IF Truthy(u.port) THEN <<u.host, ":", u.port>> ELSE <<u.host>>)
        ELSE <<>>)
    \o (IF Truthy(u.path) THEN <<u.path>> ELSE <<>>)

\* Url.get_request_uri(): the path (the model's urls carry no query parameters).
GetRequestUri(u) == <<u.path>>

-----------------------------------------------------------------------------
(* base64 and the credential text *)

\* '%s' % v
PyFormat(v) == IF v = None THEN "None" ELSE v

\* base64 of the texts 'user:password' the model's environments can produce.
Base64(text) ==
    CASE text = <<"u", ":", "None">> -> "dTpOb25l"
      [] text = <<"u", ":", "p">>    -> "dTpw"
      [] text = <<"u", ":", "q">>    -> "dTpx"
      [] text = <<"v", ":", "None">> -> "djpOb25l"
      [] text = <<"v", ":", "p">>    -> "djpw"
      [] text = <<"v", ":", "q">>    -> "djpx"

\* base64.encodestring: the encoding followed by a newline.
EncodeString(text) == <<Base64(text), LF>>

IsBlankPiece(p) == p \in {"", SP, CR, LF, "\r\n"}

\* str.strip() on a text held as pieces: leading and trailing whitespace goes.
RECURSIVE StripLeft(_)
StripLeft(t) ==
    IF t # <<>> /\ IsBlankPiece(Head(t)) THEN StripLeft(Tail(t)) ELSE t

RECURSIVE StripRight(_)
StripRight(t) ==
    IF t # <<>> /\ IsBlankPiece(Last(t)) THEN StripRight(SubSeq(t, 1, Len(t) - 1)) ELSE t

Strip(t) == StripLeft(StripRight(t))

\* _get_proxy_auth(), lines 241-253.  '' is the empty text.
GetProxyAuth_PasswordSuffices(env) ==
    LET h_user == env["proxy-username"]
        proxy_username == IF ~Truthy(h_user) THEN env["proxy_username"] ELSE h_user
        h_pass == env["proxy-password"]
        proxy_password == IF ~Truthy(h_pass) THEN env["proxy_password"] ELSE h_pass
    IN IF Truthy(proxy_username)
       THEN <<"Basic ">>
            \o Strip(EncodeString(<<proxy_username, ":", PyFormat(proxy_password)>>))
            \o <<"\r\n">>
       ELSE IF Truthy(proxy_password)
       THEN <<"Basic ", "Tm9uZTpw", "\r\n">>
       ELSE <<>>

GetProxyAuth(env) ==
    LET h_user == env["proxy-username"]
        proxy_username == IF ~Truthy(h_user) THEN env["proxy_username"] ELSE h_user
        h_pass == env["proxy-password"]
        proxy_password == IF ~Truthy(h_pass) THEN env["proxy_password"] ELSE h_pass
    IN IF Truthy(proxy_username)
       THEN <<"Basic ">>
            \o Strip(EncodeString(<<proxy_username, ":", PyFormat(proxy_password)>>))
            \o <<"\r\n">>
       ELSE <<>>

-----------------------------------------------------------------------------
(* The inputs the model draws *)

MkEnv(http_proxy, https_proxy, user_h, user_u, pass_h, pass_u) ==
    ("http_proxy" :> http_proxy) @@ ("https_proxy" :> https_proxy)
    @@ ("proxy-username" :> user_h) @@ ("proxy_username" :> user_u)
    @@ ("proxy-password" :> pass_h) @@ ("proxy_password" :> pass_u)

HttpProxyValues == {None, "", "http://webproxy:3128"}
HttpsProxyValues == {None, "", "http://sslproxy"}

\* Every proxy setting, with no credentials or with one user and password.
RoutingEnvironments ==
    {MkEnv(hp, sp, c[1], None, c[2], None) :
        hp \in HttpProxyValues, sp \in HttpsProxyValues,
        c \in {<<None, None>>, <<"u", "p">>}}

\* Both proxies set, with every setting of the four credential variables.
CredentialEnvironments ==
    {MkEnv("http://webproxy:3128", "http://sslproxy", uh, uu, ph, pu) :
        uh \in {None, "", "u"}, uu \in {None, "", "v"},
        ph \in {None, "p"}, pu \in {None, "q"}}

Environments == RoutingEnvironments \cup CredentialEnvironments

UrlObject(u) == [kind |-> "Url", text |-> "", u |-> u]
UrlString(s) == [kind |-> "str", text |-> s, u |-> NoUrl]
\* An argument that is neither a Url nor a string.
UrlOther == [kind |-> "other", text |-> "", u |-> NoUrl]
NoUrlArg == [kind |-> "none", text |-> "", u |-> NoUrl]

UrlObjects ==
    {UrlObject(MkUrl(p, "example.org", port, "/feed")) :
        p \in {"http", "https"}, port \in {None, "8443"}}
    \cup {UrlObject(MkUrl("ftp", "example.org", None, "/feed"))}

UrlInputs ==
    UrlObjects
    \cup {UrlString("http://example.org/feed"), UrlString("https://example.org/feed")}
    \cup {UrlOther}

NoData == [type |-> "NoneType", val |-> <<>>]
StrData(chars) == [type |-> "str", val |-> chars]
ListData(parts) == [type |-> "list", val |-> parts]
\* An object with a read method, holding the content it has yet to return.
FileData(content) == [type |-> "file", val |-> content]
IntData(n) == [type |-> "int", val |-> n]

Bodies ==
    {NoData, StrData(<<>>), StrData(<<"a", "b">>),
     ListData(<<StrData(<<"a">>), StrData(<<"b", "c">>)>>),
     FileData(SubSeq(<<"v", "w", "x", "y", "z">>, 1, MaxBodyLen)), IntData(7)}

\* bool(data)
DataTruthy(d) ==
    CASE d.type = "NoneType" -> FALSE
      [] d.type \in {"str", "list"} -> Len(d.val) > 0
      [] d.type = "int" -> d.val # 0
      [] OTHER -> TRUE

CallHeaders ==
    {EmptyDict, "Content-Length" :> "2", "User-Agent" :> "agent/2",
     "Content-Type" :> "text/plain"}

SelfHeaders == {EmptyDict, "User-Agent" :> "agent/1"}

Operations == {"POST"}

MkRequest(op, u, d, h) == [operation |-> op, url |-> u, data |-> d, headers |-> h]

\* The calls the model makes in a given environment: every combination of url,
\* body and headers in the routing environments; in the sweep of the credential
\* variables, bodiless requests to the two schemes.
RequestsFor(env) ==
    IF env \in RoutingEnvironments
    THEN {MkRequest(op, u, d, h) :
            op \in Operations, u \in UrlInputs, d \in Bodies, h \in CallHeaders}
    ELSE {MkRequest(op, u, NoData, EmptyDict) :
            op \in Operations,
            u \in {x \in UrlObjects : x.u.protocol \in {"http", "https"} /\ x.u.port = None}}

\* A proxy's plain replies: accepted, and refused for want of authentication.
PlainReplies ==
    {<<"H", SP, "2", "0", "0", CR, LF, CR, LF>>,
     <<"H", SP, "4", "0", "7", CR, LF, CR, LF>>}

\* What a proxy may deliver on the socket after the CONNECT request.
ProxyStreams ==
    PlainReplies \cup
    {
     \* a 200 reply with bytes of the tunnelled peer right behind it
     <<"H", SP, "2", "0", "0", CR, LF, CR, LF, "T", "L">>,
     \* a 200 reply with a header line
     <<"H", SP, "2", "0", "0", CR, LF, "X", SP, "4", "0", "7", CR, LF, CR, LF>>,
     \* a status line of one token, then a line starting with 200
     <<"H", CR, LF, "2", "0", "0", CR, LF, CR, LF>>,
     <<"H", CR, LF, CR, LF>>,
     TERMINATOR,
     \* the peer closes before the terminator
     <<"H", SP, "2", "0", "0", CR, LF>>}

\* The proxy's answers the model follows for a request: all of them for a
\* bodiless request, the plain replies for a request with a body (the proxy
\* sees nothing of the body before the tunnel stands).
ProxyStreamsFor(d) == IF d = NoData THEN ProxyStreams ELSE PlainReplies

-----------------------------------------------------------------------------
(* The state after construction *)

NoConnection == [class |-> "none", host |-> None, port |-> None, has_sock |-> FALSE]
NoSocket == [state |-> "none", host |-> None, port |-> None]
NoLine == [method |-> None, target |-> <<>>]
EmptyOutput == [line |-> NoLine, headers |-> EmptyDict, ended |-> FALSE, body |-> <<>>]

\* The per-call state before request() is entered.
Idle ==
    /\ pc = "idle"
    /\ operation = None
    /\ url_arg = NoUrlArg
    /\ url = NoUrl
    /\ data = NoData
    /\ headers = EmptyDict
    /\ all_headers = EmptyDict
    /\ proxy_auth = <<>>
    /\ connection = NoConnection
    /\ sock = NoSocket
    /\ p_sent = <<>>
    /\ stream = <<>>
    /\ response = <<>>
    /\ reads = 0
    /\ eof_reads = 0
    /\ tls_input = <<>>
    /\ buffered = EmptyOutput
    /\ wire = EmptyOutput
    /\ body_rest = <<>>
    /\ events = <<>>
    /\ outcome = "none"
    /\ err_arg = <<>>

Init ==
    /\ client \in {"HttpClient", "ProxiedHttpClient"}
    /\ environ \in Environments
    /\ self_headers \in SelfHeaders
    /\ Idle

config == <<client, environ, self_headers>>
call == <<operation, url_arg, data, headers>>
tunnel == <<p_sent, stream, response, reads, eof_reads, tls_input>>
output == <<buffered, wire, body_rest>>

\* The network operations in order, a run of equal operations noted once.
Log(log, e) == IF log # <<>> /\ Last(log) = e THEN log ELSE Append(log, e)

\* raise: request() ends with the named error.
Raise(name, arg) ==
    /\ pc' = "done"
    /\ outcome' = name
    /\ err_arg' = arg

-----------------------------------------------------------------------------
(* HttpClient.request, lines 81-92: the url check and the merge of the headers *)

InstanceHeaders_Aliased(instance, local) == local

\* self.headers after a write to all_headers: all_headers is a copy (line 88),
\* so the write does not reach the instance's dict.
InstanceHeaders(instance, local) == instance

\* all_headers = self.headers.copy(); if headers: all_headers.update(headers)
MergeHeaders(defaults, per_call) ==
    IF DOMAIN per_call # {} THEN DictUpdate(defaults, per_call) ELSE defaults

Request(r) ==
    /\ pc = "idle"
    /\ operation' = r.operation
    /\ url_arg' = r.url
    /\ data' = r.data
    /\ headers' = r.headers
    /\ IF r.url.kind = "other"
       THEN /\ Raise("UnparsableUrlObject", <<>>)
            /\ UNCHANGED <<url, all_headers, self_headers>>
       ELSE /\ url' = (IF r.url.kind = "Url" THEN r.url.u ELSE ParseUrl(r.url.text))
            /\ all_headers' = MergeHeaders(self_headers, r.headers)
            /\ self_headers' = InstanceHeaders(self_headers, all_headers')
            /\ pc' = "prepare"
            /\ UNCHANGED <<outcome, err_arg>>
    /\ UNCHANGED <<client, environ, proxy_auth, connection, sock, tunnel, output,
                   events>>

-----------------------------------------------------------------------------
(* HttpClient._prepare_connection, lines 129-143 *)

\* The port the connection is given; the url object's port is set to it.
DirectPort(u) ==
    IF Truthy(u.port) THEN u.port
    ELSE IF u.protocol = "https" THEN "443" ELSE "80"

\* httplib.HTTPSConnection(host, port) / httplib.HTTPConnection(host, port):
\* the object only; httplib connects when the first bytes are sent.
DirectConnection(u) ==
    [class |-> IF u.protocol = "https" THEN "HTTPSConnection" ELSE "HTTPConnection",
     host |-> u.host, port |-> DirectPort(u), has_sock |-> FALSE]

HttpClientPrepareConnection ==
    /\ connection' = DirectConnection(url)
    /\ url' = [url EXCEPT !.port = DirectPort(url)]
    /\ pc' = "putrequest"
    /\ UNCHANGED <<config, call, all_headers, sock, tunnel, output, events,
                   outcome, err_arg>>

PrepareDirect ==
    /\ pc = "prepare"
    /\ client = "HttpClient"
    /\ HttpClientPrepareConnection
    /\ UNCHANGED proxy_auth

-----------------------------------------------------------------------------
(* ProxiedHttpClient._prepare_connection, lines 163-231 *)

HttpsProxy_FallsBackToHttpProxy(env) ==
    IF Truthy(env["https_proxy"]) THEN env["https_proxy"] ELSE env["http_proxy"]

\* os.environ.get('https_proxy'), line 167
HttpsProxy(env) == env["https_proxy"]

\* os.environ.get('http_proxy'), lines 218 and 234
HttpProxy(env) == env["http_proxy"]

\* The branch taken: the url's scheme and the proxy variable of that scheme.
UsesTunnel == url.protocol = "https" /\ Truthy(HttpsProxy(environ))
UsesPlainProxy == url.protocol # "https" /\ Truthy(HttpProxy(environ))

\* parse_url(proxy) with the port defaulted to '80', lines 188-190 and 221-223
ProxyUrl(proxy) ==
    LET parsed == ParseUrl(proxy)
    IN [parsed EXCEPT !.port = IF Truthy(@) THEN @ ELSE "80"]

ConnectRequest_AgentBeforeAuth(u, auth, hdrs) ==
    LET auth_line == IF auth # <<>> THEN <<"Proxy-authorization: ">> \o auth ELSE <<>>
        port == IF Truthy(u.port) THEN u.port ELSE "443"
        proxy_connect == <<"CONNECT ", u.host, ":", port, " HTTP/1.0\r\n">>
        user_agent == IF DOMAIN hdrs # {} /\ Has(hdrs, "User-Agent")
                      THEN <<"User-Agent: ", hdrs["User-Agent"], "\r\n">>
                      ELSE <<>>
    IN proxy_connect \o user_agent \o auth_line \o <<"\r\n">>

\* proxy_pieces, lines 170-185
ConnectRequest(u, auth, hdrs) ==
    LET auth_line == IF auth # <<>> THEN <<"Proxy-authorization: ">> \o auth ELSE <<>>
        port == IF Truthy(u.port) THEN u.port ELSE "443"
        proxy_connect == <<"CONNECT ", u.host, ":", port, " HTTP/1.0\r\n">>
        user_agent == IF DOMAIN hdrs # {} /\ Has(hdrs, "User-Agent")
                      THEN <<"User-Agent: ", hdrs["User-Agent"], "\r\n">>
                      ELSE <<>>
    IN proxy_connect \o auth_line \o user_agent \o <<"\r\n">>

\* Lines 164-195 with the connect succeeding: the socket is opened to the proxy
\* and the CONNECT request handed to sendall.  s is what the proxy will answer.
TunnelConnect(s) ==
    /\ pc = "prepare"
    /\ client = "ProxiedHttpClient"
    /\ UsesTunnel
    /\ proxy_auth' = GetProxyAuth(environ)
    /\ LET proxy_url == ProxyUrl(HttpsProxy(environ))
       IN sock' = [state |-> "open", host |-> proxy_url.host, port |-> proxy_url.port]
    /\ p_sent' = <<ConnectRequest(url, proxy_auth', all_headers)>>
    /\ stream' = s
    /\ response' = <<>>
    /\ reads' = 0
    /\ events' = <<"connect", "sendall">>
    /\ pc' = "recv"
    /\ UNCHANGED <<config, call, url, all_headers, connection, eof_reads, tls_input,
                   output, outcome, err_arg>>

\* p_sock.connect raises socket.error (line 194); the error propagates.
TunnelConnectFails ==
    /\ pc = "prepare"
    /\ client = "ProxiedHttpClient"
    /\ UsesTunnel
    /\ proxy_auth' = GetProxyAuth(environ)
    /\ LET proxy_url == ProxyUrl(HttpsProxy(environ))
       IN sock' = [state |-> "unconnected", host |-> proxy_url.host,
                   port |-> proxy_url.port]
    /\ events' = <<"connect">>
    /\ Raise("socket.error", <<>>)
    /\ UNCHANGED <<config, call, url, all_headers, connection, tunnel, output>>

KeepReading_UntilLineEnd(resp) == Find(resp, CRLF) = -1

\* while response.find("\r\n\r\n") == -1, line 199
KeepReading(resp) == Find(resp, TERMINATOR) = -1

\* response += p_sock.recv(8192), line 200: the k bytes that have arrived
Recv(k) ==
    /\ pc = "recv"
    /\ KeepReading(response)
    /\ k \in 1..Min(Len(stream), RECV_BUFSIZE)
    /\ response' = response \o SubSeq(stream, 1, k)
    /\ stream' = SubSeq(stream, k + 1, Len(stream))
    /\ reads' = reads + 1
    /\ events' = Log(events, "recv")
    /\ UNCHANGED <<config, call, url, all_headers, proxy_auth, connection, sock,
                   p_sent, eof_reads, tls_input, output, pc, outcome, err_arg>>

\* line 200 when the proxy has closed the connection: recv returns ''
RecvEof ==
    /\ pc = "recv"
    /\ KeepReading(response)
    /\ stream = <<>>
    /\ eof_reads < MaxEofReads
    /\ eof_reads' = eof_reads + 1
    /\ events' = Log(events, "recv")
    /\ UNCHANGED <<config, call, url, all_headers, proxy_auth, connection, sock,
                   p_sent, stream, response, reads, tls_input, output, pc, outcome,
                   err_arg>>

\* p_status = response.split()[1], line 202
PStatus(resp) == Split(resp)[2]

StatusRefused_ServerErrorsOnly(p_status) == Head(p_status) = "5"

\* p_status != str(200), line 203
StatusRefused(p_status) == p_status # STATUS_OK

\* Lines 202-204, entered when the loop condition fails.
CheckStatus ==
    /\ pc = "recv"
    /\ ~KeepReading(response)
    /\ IF Len(Split(response)) < 2
       THEN Raise("IndexError", <<>>)
       ELSE IF StatusRefused(PStatus(response))
       THEN Raise("ProxyError", PStatus(response))
       ELSE pc' = "ssl" /\ UNCHANGED <<outcome, err_arg>>
    /\ UNCHANGED <<config, call, url, all_headers, proxy_auth, connection, sock,
                   tunnel, output, events>>

\* The bytes socket.ssl finds on the socket: what recv has not taken.
TlsInput(resp, rest) == rest

\* Lines 207-213: the TLS handshake on p_sock, and the connection object
\* carrying the wrapped socket.  _prepare_connection returns: its locals, the
\* accumulated response among them, are gone.
SslHandshake ==
    /\ pc = "ssl"
    /\ tls_input' = TlsInput(response, stream)
    /\ events' = Log(events, "ssl")
    /\ connection' = [class |-> "HTTPConnection",
                      host |-> ProxyUrl(HttpsProxy(environ)).host,
                      port |-> "80", has_sock |-> TRUE]
    /\ response' = <<>>
    /\ reads' = 0
    /\ pc' = "putrequest"
    /\ UNCHANGED <<config, call, url, all_headers, proxy_auth, sock, p_sent, stream,
                   eof_reads, output, outcome, err_arg>>

\* socket.ssl raises (line 207); the error propagates.
SslFails ==
    /\ pc = "ssl"
    /\ events' = Log(events, "ssl")
    /\ Raise("socket.sslerror", <<>>)
    /\ UNCHANGED <<config, call, url, all_headers, proxy_auth, connection, sock,
                   tunnel, output>>

\* Lines 218-228: a plain connection to the proxy of http_proxy.
PreparePlainProxy ==
    /\ pc = "prepare"
    /\ client = "ProxiedHttpClient"
    /\ ~UsesTunnel
    /\ UsesPlainProxy
    /\ proxy_auth' = GetProxyAuth(environ)
    /\ all_headers' = (IF proxy_auth' # <<>>
                       THEN DictUpdate(all_headers,
                                       "Proxy-Authorization" :> Strip(proxy_auth'))
                       ELSE all_headers)
    /\ self_headers' = InstanceHeaders(self_headers, all_headers')
    /\ LET proxy_url == ProxyUrl(HttpProxy(environ))
       IN connection' = [class |-> "HTTPConnection", host |-> proxy_url.host,
                         port |-> proxy_url.port, has_sock |-> FALSE]
    /\ pc' = "putrequest"
    /\ UNCHANGED <<client, environ, call, url, sock, tunnel, output, events, outcome,
                   err_arg>>

PrepareFallback_SendsProxyAuth ==
    /\ pc = "prepare"
    /\ client = "ProxiedHttpClient"
    /\ ~UsesTunnel
    /\ ~UsesPlainProxy
    /\ proxy_auth' = GetProxyAuth(environ)
    /\ all_headers' = (IF proxy_auth' # <<>>
                       THEN DictUpdate(all_headers,
                                       "Proxy-Authorization" :> Strip(proxy_auth'))
                       ELSE all_headers)
    /\ connection' = DirectConnection(url)
    /\ url' = [url EXCEPT !.port = DirectPort(url)]
    /\ pc' = "putrequest"
    /\ UNCHANGED <<config, call, sock, tunnel, output, events, outcome, err_arg>>

\* Lines 216 and 231: no proxy is set for the scheme.
PrepareFallback ==
    /\ pc = "prepare"
    /\ client = "ProxiedHttpClient"
    /\ ~UsesTunnel
    /\ ~UsesPlainProxy
    /\ proxy_auth' = GetProxyAuth(environ)
    /\ HttpClientPrepareConnection

-----------------------------------------------------------------------------
(* HttpClient.request, lines 94-127: the request handed to httplib *)

GetAccessUrl_AlwaysRequestUri(cls, u, env) == GetRequestUri(u)

GetAccessUrl_AbsoluteBehindAnyProxy(cls, u, env) ==
    IF /\ cls = "ProxiedHttpClient"
       /\ \/ u.protocol = "http" /\ Truthy(HttpProxy(env))
          \/ u.protocol = "https" /\ Truthy(HttpsProxy(env))
    THEN UrlToString(u)
    ELSE GetRequestUri(u)

\* _get_access_url, lines 145-146 and 233-238
GetAccessUrl(cls, u, env) ==
    IF cls = "ProxiedHttpClient" /\ u.protocol = "http" /\ Truthy(HttpProxy(env))
    THEN UrlToString(u)
    ELSE GetRequestUri(u)

\* connection.putrequest(operation, self._get_access_url(url)), line 97:
\* httplib queues the request line; nothing is written yet.
PutRequest ==
    /\ pc = "putrequest"
    /\ buffered' = [buffered EXCEPT
                      !.line = [method |-> operation,
                                target |-> GetAccessUrl(client, url, environ)]]
    /\ pc' = "headers"
    /\ UNCHANGED <<config, call, url, all_headers, proxy_auth, connection, sock,
                   tunnel, wire, body_rest, events, outcome, err_arg>>

\* Line 101: a Content-Length has to be worked out.
NeedsContentLength(d, hdrs) == DataTruthy(d) /\ ~Has(hdrs, "Content-Length")

\* Lines 101-111 when nothing is raised: the headers with the computed
\* Content-Length and the default Content-Type.
CompletedHeaders(d, hdrs) ==
    LET with_length == IF NeedsContentLength(d, hdrs)
                       THEN DictUpdate(hdrs, "Content-Length" :> PyStr(Len(d.val)))
                       ELSE hdrs
    IN IF Has(with_length, "Content-Type") THEN with_length
       ELSE DictUpdate(with_length, "Content-Type" :> DEFAULT_CONTENT_TYPE)

BodyParts_IteratesString(d) ==
    IF ~DataTruthy(d) THEN <<>>
    ELSE IF d.type = "list" THEN d.val
    ELSE IF d.type = "str" THEN [i \in 1..Len(d.val) |-> [type |-> "str", val |-> <<d.val[i]>>]]
    ELSE <<d>>

\* The parts the loops of lines 119-124 go through.
BodyParts(d) ==
    IF ~DataTruthy(d) THEN <<>>
    ELSE IF d.type = "list" THEN d.val
    ELSE <<d>>

RaiseContentLengthRequired_AfterEndheaders ==
    /\ pc = "headers"
    /\ NeedsContentLength(data, all_headers)
    /\ data.type # "str"
    /\ wire' = [line |-> buffered.line, headers |-> all_headers, ended |-> TRUE,
                body |-> <<>>]
    /\ buffered' = EmptyOutput
    /\ Raise("ContentLengthRequired", <<>>)
    /\ UNCHANGED <<config, call, url, all_headers, proxy_auth, connection, sock,
                   tunnel, body_rest, events>>

\* Lines 101-107: the body's length cannot be computed.
RaiseContentLengthRequired ==
    /\ pc = "headers"
    /\ NeedsContentLength(data, all_headers)
    /\ data.type # "str"
    /\ Raise("ContentLengthRequired", <<>>)
    /\ UNCHANGED <<config, call, url, all_headers, proxy_auth, connection, sock,
                   tunnel, output, events>>

\* Lines 101-116: the headers are completed and queued, and endheaders() writes
\* the request line and the headers; httplib connects first when the connection
\* has no socket yet.
SendHeaders ==
    /\ pc = "headers"
    /\ NeedsContentLength(data, all_headers) => data.type = "str"
    /\ all_headers' = CompletedHeaders(data, all_headers)
    /\ self_headers' = InstanceHeaders(self_headers, all_headers')
    /\ IF connection.has_sock
       THEN /\ events' = Log(events, "send")
            /\ UNCHANGED sock
       ELSE /\ events' = Log(Log(events, "connect"), "send")
            /\ sock' = [state |-> "open", host |-> connection.host,
                        port |-> connection.port]
    /\ wire' = [line |-> buffered.line, headers |-> all_headers', ended |-> TRUE,
                body |-> <<>>]
    /\ buffered' = EmptyOutput
    /\ body_rest' = BodyParts(data)
    /\ pc' = "body"
    /\ UNCHANGED <<client, environ, call, url, proxy_auth, connection, tunnel, outcome,
                   err_arg>>

\* connection.send(text)
Send(text) ==
    /\ wire' = [wire EXCEPT !.body = Append(@, text)]
    /\ events' = Log(events, "send")

\* _send_data_part, lines 257-259: a string is sent as it is.
SendStringPart ==
    /\ pc = "body"
    /\ body_rest # <<>>
    /\ Head(body_rest).type = "str"
    /\ Send(Head(body_rest).val)
    /\ body_rest' = Tail(body_rest)
    /\ UNCHANGED <<config, call, url, all_headers, proxy_auth, connection, sock,
                   tunnel, buffered, pc, outcome, err_arg>>

SendFileChunk_StopsAfterFirstRead(k) ==
    /\ pc = "body"
    /\ body_rest # <<>>
    /\ Head(body_rest).type = "file"
    /\ k \in 1..Min(Len(Head(body_rest).val), READ_CHUNK)
    /\ Send(SubSeq(Head(body_rest).val, 1, k))
    /\ body_rest' = Tail(body_rest)
    /\ UNCHANGED <<config, call, url, all_headers, proxy_auth, connection, sock,
                   tunnel, buffered, pc, outcome, err_arg>>

\* Lines 263-266: one read of at most 100000 bytes that returns k bytes, sent.
SendFileChunk(k) ==
    /\ pc = "body"
    /\ body_rest # <<>>
    /\ Head(body_rest).type = "file"
    /\ k \in 1..Min(Len(Head(body_rest).val), READ_CHUNK)
    /\ LET content == Head(body_rest).val
       IN /\ Send(SubSeq(content, 1, k))
          /\ body_rest' = <<FileData(SubSeq(content, k + 1, Len(content)))>>
                          \o Tail(body_rest)
    /\ UNCHANGED <<config, call, url, all_headers, proxy_auth, connection, sock,
                   tunnel, buffered, pc, outcome, err_arg>>

\* Line 265: the read returns '' and the loop ends.
FileExhausted ==
    /\ pc = "body"
    /\ body_rest # <<>>
    /\ Head(body_rest).type = "file"
    /\ Head(body_rest).val = <<>>
    /\ body_rest' = Tail(body_rest)
    /\ UNCHANGED <<config, call, url, all_headers, proxy_auth, connection, sock,
                   tunnel, buffered, wire, events, pc, outcome, err_arg>>

\* Lines 268-271: any other object is sent as str(data).
SendObjectPart ==
    /\ pc = "body"
    /\ body_rest # <<>>
    /\ Head(body_rest).type \notin {"str", "file"}
    /\ Send(<<PyStr(Head(body_rest).val)>>)
    /\ body_rest' = Tail(body_rest)
    /\ UNCHANGED <<config, call, url, all_headers, proxy_auth, connection, sock,
                   tunnel, buffered, pc, outcome, err_arg>>

\* return connection.getresponse(), line 127
GetResponse ==
    /\ pc = "body"
    /\ body_rest = <<>>
    /\ events' = Log(events, "getresponse")
    /\ outcome' = "ok"
    /\ pc' = "done"
    /\ UNCHANGED <<config, call, url, all_headers, proxy_auth, connection, sock,
                   tunnel, output, err_arg>>

\* request() has returned or raised; the client is ready for the next call.
Return ==
    /\ pc = "done"
    /\ pc' = "idle"
    /\ operation' = None
    /\ url_arg' = NoUrlArg
    /\ url' = NoUrl
    /\ data' = NoData
    /\ headers' = EmptyDict
    /\ all_headers' = EmptyDict
    /\ proxy_auth' = <<>>
    /\ connection' = NoConnection
    /\ sock' = NoSocket
    /\ p_sent' = <<>>
    /\ stream' = <<>>
    /\ response' = <<>>
    /\ reads' = 0
    /\ eof_reads' = 0
    /\ tls_input' = <<>>
    /\ buffered' = EmptyOutput
    /\ wire' = EmptyOutput
    /\ body_rest' = <<>>
    /\ events' = <<>>
    /\ outcome' = "none"
    /\ err_arg' = <<>>
    /\ UNCHANGED config

-----------------------------------------------------------------------------

DoRequest == \E r \in RequestsFor(environ) : Request(r)
DoTunnelConnect == \E s \in ProxyStreamsFor(data) : TunnelConnect(s)
DoRecv == \E k \in 1..Len(stream) : Recv(k)
DoSendFileChunk == \E k \in 1..MaxBodyLen : SendFileChunk(k)

Next ==
    \/ DoRequest
    \/ PrepareDirect
    \/ DoTunnelConnect
    \/ TunnelConnectFails
    \/ DoRecv
    \/ RecvEof
    \/ CheckStatus
    \/ SslHandshake
    \/ SslFails
    \/ PreparePlainProxy
    \/ PrepareFallback
    \/ PutRequest
    \/ RaiseContentLengthRequired
    \/ SendHeaders
    \/ SendStringPart
    \/ DoSendFileChunk
    \/ FileExhausted
    \/ SendObjectPart
    \/ GetResponse
    \/ Return

Spec == Init /\ [][Next]_vars

-----------------------------------------------------------------------------
(* Vocabulary of the properties *)

Range(seq) == {seq[i] : i \in 1..Len(seq)}

Done == pc = "done"

\* The positions at which the header terminator starts in a text.
TerminatorAt(text) ==
    {i \in 1..Len(text) :
        /\ i + 3 <= Len(text)
        /\ text[i] = CR /\ text[i + 1] = LF /\ text[i + 2] = CR /\ text[i + 3] = LF}

HasTerminator(text) == TerminatorAt(text) # {}

\* What follows the first header terminator of a text that has one.
PastTerminator(text) ==
    LET first == CHOOSE i \in TerminatorAt(text) : \A j \in TerminatorAt(text) : i <= j
    IN SubSeq(text, first + 4, Len(text))

\* The tunnel read loop is over for a reply that holds the terminator.
NegotiationRead == p_sent # <<>> /\ pc # "recv" /\ HasTerminator(response)

\* The url of the call as the caller gave it.
CallerUrl == IF url_arg.kind = "Url" THEN url_arg.u ELSE ParseUrl(url_arg.text)

HasUrl == url_arg.kind \in {"Url", "str"}

\* _prepare_connection has returned or raised.
Prepared == pc \notin {"idle", "prepare", "recv", "ssl"}

-----------------------------------------------------------------------------
(* C1 *)

\* C1: when the proxy's reply carries a status token other than "200", the
\* negotiation ends with ProxyError carrying that token; the TLS handshake is
\* never started and no connection object is returned.
C1_RefusedStatusRaisesProxyError ==
    (/\ NegotiationRead
     /\ Len(Split(response)) >= 2
     /\ Split(response)[2] # <<"2", "0", "0">>)
    => /\ Done
       /\ outcome = "ProxyError"
       /\ err_arg = Split(response)[2]
       /\ "ssl" \notin Range(events)
       /\ connection = NoConnection

C1_Witness ==
    /\ Done
    /\ outcome = "ProxyError"
    /\ err_arg = <<"4", "0", "7">>
    /\ response = <<"H", SP, "4", "0", "7", CR, LF, CR, LF>>

-----------------------------------------------------------------------------
(* C2 *)

\* C2: a request whose truthy, non-string body has no Content-Length fails
\* with ContentLengthRequired before any network operation has taken place.
C2_LengthErrorBeforeAnyNetworkIO ==
    (Done /\ outcome = "ContentLengthRequired") => events = <<>>

-----------------------------------------------------------------------------
(* C3 *)

\* The status line of a reply: the text before its first line end.
StatusLine(text) ==
    LET ends == {i \in 1..Len(text) : text[i] = CR}
    IN IF ends = {} THEN text
       ELSE SubSeq(text, 1, (CHOOSE i \in ends : \A j \in ends : i <= j) - 1)

IsOkReply(text) ==
    /\ Len(Split(StatusLine(text))) >= 2
    /\ Split(StatusLine(text))[2] = <<"2", "0", "0">>

\* C3: however a reply with status 200 is split into reads, the loop reads on
\* while the accumulated bytes lack the terminator, reads no more once they
\* hold it, and the negotiation then succeeds: the TLS handshake is next.
C3_FragmentedReplyIsReadToTheTerminator ==
    /\ (pc = "recv" /\ ~HasTerminator(response) /\ stream # <<>>)
       => (ENABLED DoRecv /\ ~ENABLED CheckStatus)
    /\ (pc = "recv" /\ HasTerminator(response))
       => (~ENABLED DoRecv /\ ~ENABLED RecvEof /\ ENABLED CheckStatus)
    /\ (p_sent # <<>> /\ pc \notin {"recv", "prepare"} /\ response # <<>>)
       => HasTerminator(response)
    /\ (NegotiationRead /\ IsOkReply(response))
       => (pc = "ssl" \/ "ssl" \in Range(events))

\* A 200 reply that arrived one byte per read, so that the terminator was cut
\* three times, has been accepted.
C3_Witness ==
    /\ pc = "ssl"
    /\ response = <<"H", SP, "2", "0", "0", CR, LF, CR, LF>>
    /\ reads = 9

-----------------------------------------------------------------------------
(* C4 *)

\* C4: the TLS handshake starts on the byte stream exactly past the header
\* terminator: every byte the proxy delivered after the first terminator is
\* the first data the TLS layer sees.
C4_TlsStartsRightPastTheTerminator ==
    [][(pc = "ssl" /\ pc' = "putrequest")
       => tls_input' = PastTerminator(response) \o stream]_vars

-----------------------------------------------------------------------------
(* C5 *)

\* C5: when request() ends with ProxyError, ContentLengthRequired or a
\* propagated socket or TLS error, the socket it opened is closed.
C5_ErrorExitClosesTheSocket ==
    (/\ Done
     /\ outcome \in {"ProxyError", "ContentLengthRequired", "socket.error",
                     "socket.sslerror"})
    => sock.state # "open"

-----------------------------------------------------------------------------
(* C6 *)

\* C6: there is no partial success.  A request that ends without an error has
\* had its request line, headers and body written and its response read; a
\* request that ends with UnparsableUrlObject, ContentLengthRequired or
\* ProxyError (or any other error of the model) has had no byte of the request
\* line, headers or body written.
C6_NoPartialSuccess ==
    /\ (Done /\ outcome = "ok")
       => /\ wire.ended
          /\ wire.line.method = operation
          /\ wire.line.target # <<>>
          /\ DOMAIN wire.headers # {}
          /\ body_rest = <<>>
          /\ DataTruthy(data) => wire.body # <<>>
          /\ Last(events) = "getresponse"
    /\ (Done /\ outcome # "ok") => wire = EmptyOutput
    /\ wire # EmptyOutput => outcome \in {"none", "ok"}

\* ContentLengthRequired was raised after the request line had been queued.
C6_Witness ==
    /\ Done
    /\ outcome = "ContentLengthRequired"
    /\ buffered.line # NoLine
    /\ wire = EmptyOutput

-----------------------------------------------------------------------------
(* C7 *)

\* C7: for an http url with http_proxy set, ProxiedHttpClient connects to the
\* proxy's host and port, not to the destination, and the request line carries
\* the absolute url, not the path.
C7_PlainProxyGetsAbsoluteUrl ==
    (/\ client = "ProxiedHttpClient"
     /\ HasUrl
     /\ CallerUrl.protocol = "http"
     /\ environ["http_proxy"] = "http://webproxy:3128"
     /\ Prepared)
    => /\ connection.class = "HTTPConnection"
       /\ connection.host = "webproxy"
       /\ connection.port = "3128"
       /\ sock.state \in {"none", "open"}
       /\ sock.state = "open" => (sock.host = "webproxy" /\ sock.port = "3128")
       /\ \A out \in {buffered, wire} :
            out.line # NoLine =>
                /\ out.line.target =
                     <<"http", "://", "example.org">>
                     \o (IF CallerUrl.port = None THEN <<>> ELSE <<":", CallerUrl.port>>)
                     \o <<"/feed">>
                /\ out.line.target # <<"/feed">>

C7_Witness ==
    /\ Done
    /\ outcome = "ok"
    /\ client = "ProxiedHttpClient"
    /\ CallerUrl.protocol = "http"
    /\ environ["http_proxy"] = "http://webproxy:3128"
    /\ sock = [state |-> "open", host |-> "webproxy", port |-> "3128"]
    /\ wire.line.target = <<"http", "://", "example.org", ":", "8443", "/feed">>

-----------------------------------------------------------------------------
(* C8 *)

\* C8: for an https url with https_proxy unset or empty, whatever http_proxy
\* and the credentials are, ProxiedHttpClient connects with HTTPS straight to
\* the destination's host and port (443 by default), opens no socket to a
\* proxy, sends no CONNECT, and writes the path-only request line.
C8_NoHttpsProxyMeansDirect ==
    (/\ client = "ProxiedHttpClient"
     /\ HasUrl
     /\ CallerUrl.protocol = "https"
     /\ environ["https_proxy"] \in {None, ""}
     /\ pc \notin {"idle", "prepare"})
    => LET port == IF CallerUrl.port = None THEN "443" ELSE CallerUrl.port
       IN /\ connection = [class |-> "HTTPSConnection", host |-> "example.org",
                           port |-> port, has_sock |-> FALSE]
          /\ p_sent = <<>>
          /\ "sendall" \notin Range(events)
          /\ sock \in {NoSocket,
                       [state |-> "open", host |-> "example.org", port |-> port]}
          /\ \A out \in {buffered, wire} :
               out.line # NoLine => out.line.target = <<"/feed">>

C8_Witness ==
    /\ Done
    /\ outcome = "ok"
    /\ client = "ProxiedHttpClient"
    /\ CallerUrl.protocol = "https"
    /\ environ["https_proxy"] = ""
    /\ environ["http_proxy"] = "http://webproxy:3128"
    /\ environ["proxy-username"] = "u"
    /\ sock = [state |-> "open", host |-> "example.org", port |-> "443"]
    /\ wire.line.target = <<"/feed">>

-----------------------------------------------------------------------------
(* C9 *)

NoUserName ==
    /\ environ["proxy-username"] \in {None, ""}
    /\ environ["proxy_username"] \in {None, ""}

\* C9: with no user name set, or only empty ones, whatever the two password
\* variables hold, _get_proxy_auth returns the empty value: the CONNECT request
\* has no Proxy-authorization line and the request through a plain proxy gets
\* no Proxy-Authorization header.
C9_NoUserNameNoCredentials ==
    (NoUserName /\ client = "ProxiedHttpClient" /\ pc \notin {"idle", "prepare"} /\ HasUrl)
    => /\ proxy_auth = <<>>
       /\ \A i \in 1..Len(p_sent) :
            \A piece \in Range(p_sent[i]) :
                piece \notin {"Proxy-authorization: ", "Basic "}
       /\ \A hdrs \in {all_headers, buffered.headers, wire.headers} :
            "Proxy-Authorization" \notin DOMAIN hdrs

\* Only a password is set, under either name; the CONNECT request has gone out.
C9_Witness ==
    /\ NoUserName
    /\ environ["proxy-password"] = None
    /\ environ["proxy_password"] = "q"
    /\ environ["proxy_username"] = ""
    /\ p_sent = <<<<"CONNECT ", "example.org", ":", "443", " HTTP/1.0\r\n", "\r\n">>>>
    /\ Done

-----------------------------------------------------------------------------
(* C10 *)

\* The Content-Length the caller gave, in the instance or the per-call headers.
CallerContentLength ==
    IF "Content-Length" \in DOMAIN headers THEN headers["Content-Length"]
    ELSE self_headers["Content-Length"]

\* C10: a non-empty string body given with a Content-Length equal to its
\* length is written after the headers in one piece, unmodified and complete,
\* and the Content-Length sent is the caller's.
C10_StringBodyRoundTrip ==
    /\ (/\ Done
        /\ outcome = "ok"
        /\ data.type = "str"
        /\ Len(data.val) > 0
        /\ "Content-Length" \in (DOMAIN headers \cup DOMAIN self_headers)
        /\ CallerContentLength = PyStr(Len(data.val)))
       => /\ wire.body = <<data.val>>
          /\ wire.headers["Content-Length"] = CallerContentLength
    /\ wire.body # <<>> => wire.ended

C10_Witness ==
    /\ Done
    /\ outcome = "ok"
    /\ data = StrData(<<"a", "b">>)
    /\ headers = ("Content-Length" :> "2")
    /\ wire.body = <<<<"a", "b">>>>
    /\ wire.headers["Content-Length"] = "2"

-----------------------------------------------------------------------------
(* C11 *)

\* C11: the url object the caller passed has the same scheme, host, port and
\* path during and after the call as before it.
C11_CallerUrlIsNotModified ==
    (url_arg.kind = "Url" /\ pc # "idle") => url = url_arg.u

-----------------------------------------------------------------------------
(* C12 *)

UserExists ==
    Truthy(environ["proxy-username"]) \/ Truthy(environ["proxy_username"])

\* The request goes, unencrypted, to the proxy of http_proxy.
PlainProxyVariant ==
    /\ client = "ProxiedHttpClient"
    /\ HasUrl
    /\ CallerUrl.protocol # "https"
    /\ Truthy(environ["http_proxy"])

\* The value a header is sent with when the caller gave it: the per-call value
\* before the instance's.
CallerHeader(name) ==
    IF name \in DOMAIN headers THEN headers[name] ELSE self_headers[name]

CallerHeaderNames == DOMAIN headers \cup DOMAIN self_headers

\* C12: the headers sent for a call are the instance's headers overridden by
\* the call's, plus the Content-Length, the default Content-Type and the
\* Proxy-Authorization computed for the call; no call changes the instance's
\* headers or the caller's per-call dict.
C12_HeadersAreMergedPerCall ==
    /\ [](wire.ended =>
            /\ \A name \in CallerHeaderNames :
                 name \in DOMAIN wire.headers /\ wire.headers[name] = CallerHeader(name)
            /\ DOMAIN wire.headers \subseteq
                 CallerHeaderNames
                 \cup {"Content-Length", "Content-Type", "Proxy-Authorization"}
            /\ "Content-Type" \in DOMAIN wire.headers
            /\ "Content-Type" \notin CallerHeaderNames
               => wire.headers["Content-Type"] = "application/atom+xml"
            /\ "Content-Length" \notin CallerHeaderNames
               => IF DataTruthy(data)
                  THEN wire.headers["Content-Length"] = PyStr(Len(data.val))
                  ELSE "Content-Length" \notin DOMAIN wire.headers
            /\ "Proxy-Authorization" \in DOMAIN wire.headers
               <=> (PlainProxyVariant /\ UserExists))
    /\ [][self_headers' = self_headers]_vars
    /\ [][pc \notin {"idle", "done"} => headers' = headers]_vars

\* The call's User-Agent went out in place of the instance's, a Content-Length
\* and a Content-Type were computed, and the instance's headers are as they were.
C12_Witness ==
    /\ Done
    /\ outcome = "ok"
    /\ self_headers = ("User-Agent" :> "agent/1")
    /\ headers = ("User-Agent" :> "agent/2")
    /\ data = StrData(<<"a", "b">>)
    /\ wire.headers = ("User-Agent" :> "agent/2") @@ ("Content-Length" :> "2")
                      @@ ("Content-Type" :> "application/atom+xml")

-----------------------------------------------------------------------------
(* C13 *)

\* The request goes through a CONNECT tunnel of the proxy of https_proxy.
TunnelVariant ==
    /\ client = "ProxiedHttpClient"
    /\ HasUrl
    /\ CallerUrl.protocol = "https"
    /\ Truthy(environ["https_proxy"])
    /\ pc \notin {"idle", "prepare"}

TunnelOrder == <<"connect", "sendall", "recv", "ssl", "send", "getresponse">>

IsPrefix(a, b) == Len(a) <= Len(b) /\ a = SubSeq(b, 1, Len(a))

\* The accumulated reply is complete and the token the negotiation compares
\* is "200".
AcceptedReply(text) ==
    /\ HasTerminator(text)
    /\ Len(Split(text)) >= 2
    /\ Split(text)[2] = <<"2", "0", "0">>

-----------------------------------------------------------------------------
(* C14 *)

\* C14: the status the negotiation compares with "200" is the second token of
\* the first line of the reply: the negotiation goes on to the TLS handshake
\* only for a reply whose first line has "200" as its second token, and a
\* ProxyError carries the second token of the first line.
C14_StatusIsTheFirstLinesSecondToken ==
    NegotiationRead
    => /\ (pc = "ssl" \/ "ssl" \in Range(events)) => IsOkReply(response)
       /\ outcome = "ProxyError"
          => /\ Len(Split(StatusLine(response))) >= 2
             /\ err_arg = Split(StatusLine(response))[2]

-----------------------------------------------------------------------------
(* C15 *)

ConnectLine ==
    <<"CONNECT ", CallerUrl.host, ":",
      IF CallerUrl.port = None THEN "443" ELSE CallerUrl.port, " HTTP/1.0\r\n">>

UserAgentLine ==
    IF "User-Agent" \in CallerHeaderNames
    THEN <<"User-Agent: ", CallerHeader("User-Agent"), "\r\n">>
    ELSE <<>>

-----------------------------------------------------------------------------
(* C16 *)

RECURSIVE Concat(_)
Concat(texts) == IF texts = <<>> THEN <<>> ELSE Head(texts) \o Concat(Tail(texts))

\* The bytes a part stands for: a string's or a stream's content, the string
\* form of any other object.
PartText(part) ==
    IF part.type \in {"str", "file"} THEN part.val ELSE <<PyStr(part.val)>>

PartTexts(parts) == [i \in 1..Len(parts) |-> PartText(parts[i])]

\* The parts of the body the caller gave.
CallerParts ==
    IF ~DataTruthy(data) THEN <<>>
    ELSE IF data.type = "list" THEN data.val
    ELSE <<data>>

\* What is left to do of the body: the parts and the bytes not sent yet.
Remaining == Len(body_rest) + Len(Concat(PartTexts(body_rest)))

\* C16: the body goes out after the headers, in order and complete: at every
\* moment what has been sent followed by what is left is the content of the
\* body; at the end a list has had one send per part in list order, a stream
\* non-empty chunks of at most 100000 bytes whose concatenation is its content,
\* any other object one send of its string form; and every step of the sending
\* loops makes what is left smaller, so that they end.
C16_BodyIsSentInOrderAndComplete ==
    /\ [](/\ wire.body # <<>> => wire.ended
          /\ (wire.ended /\ pc \in {"body", "done"})
             => Concat(wire.body) \o Concat(PartTexts(body_rest))
                = Concat(PartTexts(CallerParts))
          /\ (Done /\ outcome = "ok" /\ DataTruthy(data))
             => /\ data.type = "list" => wire.body = PartTexts(data.val)
                /\ data.type = "file"
                   => /\ Concat(wire.body) = data.val
                      /\ \A i \in 1..Len(wire.body) :
                           Len(wire.body[i]) \in 1..READ_CHUNK
                /\ data.type \notin {"list", "file", "str"}
                   => wire.body = <<<<PyStr(data.val)>>>>)
    /\ [][(pc = "body" /\ pc' = "body") => Remaining' < Remaining]_vars

\* A stream went out as two chunks, the first read a short one of one byte.
C16_Witness ==
    /\ Done
    /\ outcome = "ok"
    /\ data.type = "file"
    /\ Len(data.val) = MaxBodyLen
    /\ Len(wire.body) = 2
    /\ wire.body[1] = <<"v">>

-----------------------------------------------------------------------------
(* C17 *)

\* C17: for every reply that holds the terminator the negotiation either
\* succeeds, going on to the TLS handshake, or ends with ProxyError.
C17_NegotiationEndsTyped ==
    NegotiationRead
    => \/ pc = "ssl"
       \/ "ssl" \in Range(events)
       \/ Done /\ outcome = "ProxyError"

-----------------------------------------------------------------------------
(* C18 *)

\* C18: once a read has returned no bytes, the proxy having closed the
\* connection before the reply held the terminator, the read loop is over.
C18_ClosedProxyEndsTheReadLoop ==
    (p_sent # <<>> /\ eof_reads > 0 /\ ~HasTerminator(response)) => pc # "recv"

-----------------------------------------------------------------------------
(* C19 *)

\* The request line queued or written for the call.
RequestLine == IF wire.ended THEN wire.line ELSE buffered.line

AbsoluteTarget(target) == Len(target) > 1 /\ target[2] = "://"

\* The connection object is a plain one to the host of http_proxy.
PlainToHttpProxy ==
    /\ Truthy(environ["http_proxy"])
    /\ p_sent = <<>>
    /\ connection.class = "HTTPConnection"
    /\ connection.host = ParseUrl(environ["http_proxy"]).host

\* C19: in ProxiedHttpClient the request line names the absolute url exactly
\* when the connection is a plain one to the http proxy, and the path alone
\* otherwise, whatever the scheme of the url and the proxies set.
C19_TargetFormMatchesTheConnection ==
    (client = "ProxiedHttpClient" /\ RequestLine # NoLine)
    => /\ AbsoluteTarget(RequestLine.target) <=> PlainToHttpProxy
       /\ ~AbsoluteTarget(RequestLine.target)
          => RequestLine.target = <<CallerUrl.path>>

-----------------------------------------------------------------------------
(* C20 *)

\* C20: the client adds a Proxy-Authorization header to the request exactly
\* when the request goes to the proxy of http_proxy and a user name is set;
\* through a tunnel the credentials are in the CONNECT request and in no
\* header of the request, and with no proxy for the scheme, or in HttpClient,
\* no such header is added whatever credentials are set.
C20_CredentialsGoOnlyToTheProxy ==
    (HasUrl /\ pc \notin {"idle", "prepare"})
    => /\ "Proxy-Authorization" \in DOMAIN all_headers
          <=> (PlainProxyVariant /\ UserExists)
       /\ wire.ended
          => ("Proxy-Authorization" \in DOMAIN wire.headers
              <=> (PlainProxyVariant /\ UserExists))
       /\ (PlainProxyVariant /\ UserExists)
          => /\ Len(all_headers["Proxy-Authorization"]) = 2
             /\ all_headers["Proxy-Authorization"][1] = "Basic "
       /\ p_sent # <<>> => TunnelVariant
       /\ (TunnelVariant /\ p_sent # <<>>)
          => ("Proxy-authorization: " \in Range(p_sent[1]) <=> UserExists)

\* With credentials set and no proxy for the scheme, a request went out
\* directly and without the header.
C20_Witness ==
    /\ Done
    /\ outcome = "ok"
    /\ client = "ProxiedHttpClient"
    /\ UserExists
    /\ ~Truthy(environ["http_proxy"])
    /\ CallerUrl.protocol = "http"
    /\ connection.host = "example.org"
    /\ wire.ended
    /\ "Proxy-Authorization" \notin DOMAIN wire.headers

====
